---- MODULE Spec2Model ----
(***************************************************************************)
(* Term-graph core of khvm_graph (src/khvm_graph/src/main.rs):             *)
(* create_term (Surface Term -> node graph), build_names_go (Namer),       *)
(* readback (node graph -> Surface Term) and reduce.                       *)
(*                                                                         *)
(* Rc / Rc<RefCell<..>> allocations are cells of `heap`; the address of a  *)
(* cell (its index) is what get_uid returns.                               *)
(***************************************************************************)
EXTENDS Integers, Sequences, FiniteSets, TLC

VARIABLES term, pc, node, heap, err, labels_log, consumed, uses,
          names, dup_paths, out, calls

vars == <<term, pc, node, heap, err, labels_log, consumed, uses,
          names, dup_paths, out, calls>>

----------------------------------------------------------------------------
(* Bounds of the explored inputs *)

\* largest number of constructors of an input Surface Term
MaxSize == 5

\* Name::NONE, the unused binder slot
NONE == "NONE"

\* names the input terms draw from
VarNames == {"x", "y"}
BinderNames == VarNames \cup {NONE}
\* (nam0, nam1) pairs of the input Dup terms
DupNames == {<<"x", "y">>, <<"x", "x">>, <<NONE, "x">>, <<NONE, NONE>>}

\* U120::MAX, the value of the placeholder body (stands for 2^120 - 1)
U120_MAX == 2147483647

----------------------------------------------------------------------------
(* Surface Term (kindelia_core::hvm::Term) *)

Var(name) == [tag |-> "Var", name |-> name]
Dup(nam0, nam1, expr, body) ==
  [tag |-> "Dup", nam0 |-> nam0, nam1 |-> nam1, expr |-> expr, body |-> body]
Lam(name, body) == [tag |-> "Lam", name |-> name, body |-> body]
App(func, argm) == [tag |-> "App", func |-> func, argm |-> argm]
Ctr(name, args) == [tag |-> "Ctr", name |-> name, args |-> args]
Fun(name, args) == [tag |-> "Fun", name |-> name, args |-> args]
Num(numb) == [tag |-> "Num", numb |-> numb]
Op2(oper, val0, val1) ==
  [tag |-> "Op2", oper |-> oper, val0 |-> val0, val1 |-> val1]

\* the terms with exactly one constructor
Leaves == {Var(v) : v \in VarNames} \cup {Num(0)}

\* the terms with one constructor more than the largest in S, where S[i] is
\* the set of the terms with exactly i constructors over the small alphabet
TermsStep(S) ==
  LET n == Len(S) + 1
      Pairs == UNION {S[i] \X S[n - 1 - i] : i \in 1..(n - 2)}
  IN  {Lam(b, t) : b \in BinderNames, t \in S[n - 1]}
      \cup {Fun("F", <<t>>) : t \in S[n - 1]}
      \cup {App(p[1], p[2]) : p \in Pairs}
      \cup {Op2("ADD", p[1], p[2]) : p \in Pairs}
      \cup {Ctr("Pair", <<p[1], p[2]>>) : p \in Pairs}
      \cup {Dup(d[1], d[2], p[1], p[2]) : d \in DupNames, p \in Pairs}

RECURSIVE TermsBySize(_, _)
TermsBySize(S, n) ==
  IF Len(S) >= n THEN S ELSE TermsBySize(Append(S, TermsStep(S)), n)

\* t is a Surface Term with at most MaxSize constructors: a leaf, or one
\* constructor over smaller terms
IsInputTerm(t) ==
  LET S == TermsBySize(<<Leaves>>, MaxSize - 1)
  IN  \/ t \in Leaves
      \/ \E n \in 1..(MaxSize - 1) :
           \/ \E b \in BinderNames, u \in S[n] : t = Lam(b, u)
           \/ \E u \in S[n] : t = Fun("F", <<u>>)
           \/ \E i \in 1..(n - 1) : \E u \in S[i], v \in S[n - i] :
                \/ t = App(u, v)
                \/ t = Op2("ADD", u, v)
                \/ t = Ctr("Pair", <<u, v>>)
                \/ \E d \in DupNames : t = Dup(d[1], d[2], u, v)

----------------------------------------------------------------------------
(* Node graph *)

\* Option::None of an Option<Rc<..>> link
Null == 0

TVar(var) == [tag |-> "Var", var |-> var]
TDpx(dpx) == [tag |-> "Dpx", dpx |-> dpx]
TSup(label, sup) == [tag |-> "Sup", label |-> label, sup |-> sup]
TLam(lam) == [tag |-> "Lam", lam |-> lam]
TApp(f, arg) == [tag |-> "App", f |-> f, arg |-> arg]
TCtr(name, args) == [tag |-> "Ctr", name |-> name, args |-> args]
TFun(name, args) == [tag |-> "Fun", name |-> name, args |-> args]
TNum(value) == [tag |-> "Num", value |-> value]
TOp2(op, arg0, arg1) == [tag |-> "Op2", op |-> op, arg0 |-> arg0, arg1 |-> arg1]
\* Option::None of an Option<TermNode>
TNone == [tag |-> "None"]

VarNode(lam) == [kind |-> "VarNode", lam |-> lam]
DpxNode(label, side, dup) ==
  [kind |-> "DpxNode", label |-> label, side |-> side, dup |-> dup]
LamNode(var, body) == [kind |-> "LamNode", var |-> var, body |-> body]
DupNode(left, right, expr) ==
  [kind |-> "DupNode", left |-> left, right |-> right, expr |-> expr]
SupNode(left, right) == [kind |-> "SupNode", left |-> left, right |-> right]

\* rc / rcell: allocate a cell; its address is the new length of the heap
rc(h, cell) == [heap |-> Append(h, cell), addr |-> Len(h) + 1]

\* the identity key of a shared node: its address
get_uid(addr) == addr

placeholder == TNum(U120_MAX)

----------------------------------------------------------------------------
(* create_term *)

\* init_name_map(): the empty table name -> stack of pending occurrences
init_name_map == <<>>

\* the label counter closure of one create_term_go call: returns the value
\* of `labels` before the increment
fresh_label(labels) == [labels |-> labels + 1, value |-> (labels + 1) - 1]

\* consume: pop the top pending occurrence of `name`, None if there is none
consume(vars_map, name) ==
  IF name \notin DOMAIN vars_map \/ vars_map[name] = <<>>
  THEN [some |-> FALSE, value |-> placeholder, vars_map |-> vars_map]
  ELSE LET stack == vars_map[name]
       IN  [some |-> TRUE, value |-> stack[Len(stack)],
            vars_map |-> [vars_map EXCEPT ![name] = SubSeq(stack, 1, Len(stack) - 1)]]

\* vars_map.entry(name).or_default().push(t)
push_binding(vars_map, name, t) ==
  IF name \in DOMAIN vars_map
  THEN [vars_map EXCEPT ![name] = Append(@, t)]
  ELSE (name :> <<t>>) @@ vars_map

\* st = [vars_map, heap, labels_log, consumed, uses]; uses lists the
\* occurrence nodes consume returned, in the order of the calls
bind_var(st, name, lam_node) ==
  IF name # NONE
  THEN LET a == rc(st.heap, VarNode(lam_node))
           h == [a.heap EXCEPT ![lam_node].var = a.addr]
       IN  [st EXCEPT !.heap = h,
                      !.vars_map = push_binding(st.vars_map, name, TVar(a.addr))]
  ELSE st

bind_dp(st, name, label, side, dup_node) ==
  IF name # NONE
  THEN LET a == rc(st.heap, DpxNode(label, side, dup_node))
           h == IF ~side THEN [a.heap EXCEPT ![dup_node].left = a.addr]
                         ELSE [a.heap EXCEPT ![dup_node].right = a.addr]
       IN  [st EXCEPT !.heap = h,
                      !.vars_map = push_binding(st.vars_map, name, TDpx(a.addr))]
  ELSE st

Ok(st, n) == [ok |-> TRUE, node |-> n, err |-> NONE, st |-> st]
Err(st, name) == [ok |-> FALSE, node |-> placeholder, err |-> name, st |-> st]

RECURSIVE create_term_go(_, _)
RECURSIVE create_args(_, _, _, _)

\* args.iter().map(|arg| create_term_go(vars_map, arg)).collect(): builds the
\* arguments left to right and stops at the first error
create_args(st, args, i, acc) ==
  IF i > Len(args) THEN [ok |-> TRUE, node |-> acc, err |-> NONE, st |-> st]
  ELSE LET r == create_term_go(st, args[i])
       IN  IF ~r.ok THEN r
           ELSE create_args(r.st, args, i + 1, Append(acc, r.node))

create_term_go(st, t) ==
  LET labels == 1 IN
  CASE t.tag = "Var" ->
         LET c == consume(st.vars_map, t.name)
         IN  IF c.some
             THEN Ok([st EXCEPT !.vars_map = c.vars_map,
                                !.consumed = @ + 1,
                                !.uses = Append(@, c.value)], c.value)
             ELSE Err(st, t.name)
    [] t.tag = "Dup" ->
         LET fl == fresh_label(labels)
             label == fl.value
             st0 == [st EXCEPT !.labels_log = Append(@, label)]
             e == create_term_go(st0, t.expr)
         IN  IF ~e.ok THEN e
             ELSE LET a == rc(e.st.heap, DupNode(Null, Null, e.node))
                      st1 == [e.st EXCEPT !.heap = a.heap]
                      st2 == bind_dp(st1, t.nam0, label, FALSE, a.addr)
                      st3 == bind_dp(st2, t.nam1, label, TRUE, a.addr)
                  IN  create_term_go(st3, t.body)
    [] t.tag = "Lam" ->
         LET a == rc(st.heap, LamNode(Null, placeholder))
             st1 == bind_var([st EXCEPT !.heap = a.heap], t.name, a.addr)
             b == create_term_go(st1, t.body)
         IN  IF ~b.ok THEN b
             ELSE Ok([b.st EXCEPT !.heap[a.addr].body = b.node], TLam(a.addr))
    [] t.tag = "App" ->
         LET f == create_term_go(st, t.func)
         IN  IF ~f.ok THEN f
             ELSE LET arg == create_term_go(f.st, t.argm)
                  IN  IF ~arg.ok THEN arg
                      ELSE Ok(arg.st, TApp(f.node, arg.node))
    [] t.tag = "Ctr" ->
         LET args == create_args(st, t.args, 1, <<>>)
         IN  IF ~args.ok THEN args
             ELSE Ok(args.st, TCtr(t.name, args.node))
    [] t.tag = "Fun" ->
         LET args == create_args(st, t.args, 1, <<>>)
         IN  IF ~args.ok THEN args
             ELSE Ok(args.st, TFun(t.name, args.node))
    [] t.tag = "Num" -> Ok(st, TNum(t.numb))
    [] t.tag = "Op2" ->
         LET arg0 == create_term_go(st, t.val0)
         IN  IF ~arg0.ok THEN arg0
             ELSE LET arg1 == create_term_go(arg0.st, t.val1)
                  IN  IF ~arg1.ok THEN arg1
                      ELSE Ok(arg1.st, TOp2(t.oper, arg0.node, arg1.node))

create_term(t) ==
  create_term_go([vars_map |-> init_name_map, heap |-> <<>>,
                  labels_log |-> <<>>, consumed |-> 0, uses |-> <<>>], t)

----------------------------------------------------------------------------
(* Namer *)

RECURSIVE build_names_go(_, _, _)
RECURSIVE build_names_args(_, _, _, _)

\* for arg in args { build_names_go(names, arg) }
build_names_args(nm, h, args, i) ==
  IF i > Len(args) THEN nm
  ELSE build_names_args(build_names_go(nm, h, args[i]), h, args, i + 1)

\* nm is the HashMap<usize, usize> uid -> id; names.len() is its cardinality
build_names_go(nm, h, n) ==
  CASE n.tag = "Var" -> nm
    [] n.tag = "Dpx" ->
         LET uid == get_uid(h[n.dpx].dup)
             next == Cardinality(DOMAIN nm)
         IN  IF uid \notin DOMAIN nm
             THEN build_names_go((uid :> next) @@ nm, h, h[uid].expr)
             ELSE nm
    [] n.tag = "Sup" ->
         LET l == h[n.sup].left
             r == h[n.sup].right
             nm1 == IF l.tag # "None" THEN build_names_go(nm, h, l) ELSE nm
         IN  IF r.tag # "None" THEN build_names_go(nm1, h, r) ELSE nm1
    [] n.tag = "Lam" ->
         LET lam == h[n.lam]
         IN  IF lam.var # Null
             THEN LET uid == get_uid(lam.var)
                      next == Cardinality(DOMAIN nm)
                      nm1 == IF uid \in DOMAIN nm THEN nm ELSE (uid :> next) @@ nm
                  IN  build_names_go(nm1, h, lam.body)
             ELSE nm
    [] n.tag = "App" -> build_names_go(build_names_go(nm, h, n.f), h, n.arg)
    [] n.tag \in {"Ctr", "Fun"} -> build_names_args(nm, h, n.args, 1)
    [] n.tag = "Num" -> nm
    [] n.tag = "Op2" -> build_names_go(build_names_go(nm, h, n.arg0), h, n.arg1)

----------------------------------------------------------------------------
(* Reader *)

\* DupPaths::new
DupPaths_new == <<>>

\* DupPaths::get
DupPaths_get(dp, label) ==
  IF label \in DOMAIN dp THEN [some |-> TRUE, value |-> dp[label]]
  ELSE [some |-> FALSE, value |-> <<>>]

\* DupPaths::pop that leaves the stack as it is
DupPaths_pop_keep(dp, label) ==
  LET dp1 == IF label \in DOMAIN dp THEN dp ELSE (label :> <<>>) @@ dp
      stack == dp1[label]
  IN  [dup_paths |-> dp1,
       value |-> IF stack = <<>> THEN FALSE ELSE stack[Len(stack)]]

\* DupPaths::pop: stack.pop().unwrap_or(false) on the (possibly new) stack
DupPaths_pop(dp, label) ==
  LET dp1 == IF label \in DOMAIN dp THEN dp ELSE (label :> <<>>) @@ dp
      stack == dp1[label]
  IN  IF stack = <<>> THEN [dup_paths |-> dp1, value |-> FALSE]
      ELSE [dup_paths |-> [dp1 EXCEPT ![label] = SubSeq(stack, 1, Len(stack) - 1)],
            value |-> stack[Len(stack)]]

\* DupPaths::push
DupPaths_push(dp, label, value) ==
  IF label \in DOMAIN dp THEN [dp EXCEPT ![label] = Append(@, value)]
  ELSE (label :> <<value>>) @@ dp

\* Name::from_str_unsafe("___")
wut == "___"

\* Name::from_str_unsafe(&format!("x{}", n))
IdName(n) == "x" \o ToString(n)

\* names.get(&uid).map(..).unwrap_or(wut)
NameOf(nm, uid) == IF uid \in DOMAIN nm THEN IdName(nm[uid]) ELSE wut

\* one finished readback_go call: the stacks at entry (pre) and at return
\* (post); for a projection also its label, side and the stacks handed to
\* the read of the owned expression (mid)
Call(tag, pre, mid, post, label, side) ==
  [tag |-> tag, pre |-> pre, mid |-> mid, post |-> post,
   label |-> label, side |-> side]

\* result of a readback_go call; panic is the todo!() abort
Ret(t, dp, cs) == [panic |-> FALSE, term |-> t, dup_paths |-> dp, calls |-> cs]
Panic(dp, cs) == [panic |-> TRUE, term |-> Num(0), dup_paths |-> dp, calls |-> cs]

RECURSIVE readback_go(_, _, _, _)
RECURSIVE readback_args(_, _, _, _, _, _, _)

\* args.iter().map(|arg| readback_go(names, dup_paths, arg)).collect()
readback_args(nm, dp, h, args, i, acc, cs) ==
  IF i > Len(args) THEN Ret(acc, dp, cs)
  ELSE LET r == readback_go(nm, dp, h, args[i])
       IN  IF r.panic THEN Panic(r.dup_paths, cs \o r.calls)
           ELSE readback_args(nm, r.dup_paths, h, args, i + 1,
                              Append(acc, r.term), cs \o r.calls)

readback_go(nm, dp, h, n) ==
  CASE n.tag = "Var" ->
         LET uid == get_uid(n.var)
         IN  Ret(Var(NameOf(nm, uid)), dp, <<Call("Var", dp, dp, dp, 0, FALSE)>>)
    [] n.tag = "Dpx" ->
         LET dpx == h[n.dpx]
             label == dpx.label
             side == dpx.side
             dp1 == DupPaths_push(dp, label, side)
             e == readback_go(nm, dp1, h, h[dpx.dup].expr)
         IN  IF e.panic THEN Panic(e.dup_paths, e.calls)
             ELSE LET dp2 == DupPaths_pop(e.dup_paths, label).dup_paths
                  IN  Ret(e.term, dp2,
                          Append(e.calls, Call("Dpx", dp, dp1, dp2, label, side)))
    [] n.tag = "Sup" ->
         LET last_side == DupPaths_get(dp, n.label)
         IN  Panic(dp, <<>>)
    [] n.tag = "Lam" ->
         LET lam == h[n.lam]
             name == IF lam.var # Null THEN NameOf(nm, get_uid(lam.var)) ELSE NONE
             b == readback_go(nm, dp, h, lam.body)
         IN  IF b.panic THEN b
             ELSE Ret(Lam(name, b.term), b.dup_paths,
                      Append(b.calls, Call("Lam", dp, dp, b.dup_paths, 0, FALSE)))
    [] n.tag = "App" ->
         LET f == readback_go(nm, dp, h, n.f)
         IN  IF f.panic THEN f
             ELSE LET a == readback_go(nm, f.dup_paths, h, n.arg)
                  IN  IF a.panic THEN Panic(a.dup_paths, f.calls \o a.calls)
                      ELSE Ret(App(f.term, a.term), a.dup_paths,
                               Append(f.calls \o a.calls,
                                      Call("App", dp, dp, a.dup_paths, 0, FALSE)))
    [] n.tag = "Ctr" ->
         LET r == readback_args(nm, dp, h, n.args, 1, <<>>, <<>>)
         IN  IF r.panic THEN r
             ELSE Ret(Ctr(n.name, r.term), r.dup_paths,
                      Append(r.calls, Call("Ctr", dp, dp, r.dup_paths, 0, FALSE)))
    [] n.tag = "Fun" ->
         LET r == readback_args(nm, dp, h, n.args, 1, <<>>, <<>>)
         IN  IF r.panic THEN r
             ELSE Ret(Fun(n.name, r.term), r.dup_paths,
                      Append(r.calls, Call("Fun", dp, dp, r.dup_paths, 0, FALSE)))
    [] n.tag = "Num" ->
         Ret(Num(n.value), dp, <<Call("Num", dp, dp, dp, 0, FALSE)>>)
    [] n.tag = "Op2" ->
         LET v0 == readback_go(nm, dp, h, n.arg0)
         IN  IF v0.panic THEN v0
             ELSE LET v1 == readback_go(nm, v0.dup_paths, h, n.arg1)
                  IN  IF v1.panic THEN Panic(v1.dup_paths, v0.calls \o v1.calls)
                      ELSE Ret(Op2(n.op, v0.term, v1.term), v1.dup_paths,
                               Append(v0.calls \o v1.calls,
                                      Call("Op2", dp, dp, v1.dup_paths, 0, FALSE)))

\* readback: name the graph, then read it with fresh duplication paths
readback(h, n) ==
  LET nm == build_names_go(<<>>, h, n)
  IN  [names |-> nm, r |-> readback_go(nm, DupPaths_new, h, n)]

----------------------------------------------------------------------------
(* State machine *)

Init ==
  /\ IsInputTerm(term)
  /\ pc = "start"
  /\ node = placeholder
  /\ heap = <<>>
  /\ err = NONE
  /\ labels_log = <<>>
  /\ consumed = 0
  /\ uses = <<>>
  /\ names = <<>>
  /\ dup_paths = <<>>
  /\ out = Num(0)
  /\ calls = <<>>

\* main: let node = create_term(&term)
CreateTerm ==
  /\ pc = "start"
  /\ LET r == create_term(term)
     IN  /\ pc' = IF r.ok THEN "built" ELSE "failed"
         /\ node' = r.node
         /\ heap' = r.st.heap
         /\ err' = r.err
         /\ labels_log' = r.st.labels_log
         /\ consumed' = r.st.consumed
         /\ uses' = r.st.uses
  /\ UNCHANGED <<term, names, dup_paths, out, calls>>

\* main: let read_term = readback(&node)
Readback ==
  /\ pc = "built"
  /\ LET rb == readback(heap, node)
     IN  /\ names' = rb.names
         /\ pc' = IF rb.r.panic THEN "readback_panic" ELSE "done"
         /\ out' = rb.r.term
         /\ dup_paths' = rb.r.dup_paths
         /\ calls' = rb.r.calls
  /\ UNCHANGED <<term, node, heap, err, labels_log, consumed, uses>>

\* reduce(node): todo!() aborts the program
Reduce ==
  /\ pc = "built"
  /\ pc' = "reduce_panic"
  /\ UNCHANGED <<term, node, heap, err, labels_log, consumed, uses,
                 names, dup_paths, out, calls>>

Next == CreateTerm \/ Readback \/ Reduce

\* largest label of the hand-built graphs
MaxLabel == 2
\* largest number literal of the hand-built graphs
MaxNum == 2

\* the alternatives of the hand-built Superposition nodes
SupAlts ==
  {TNone} \cup {TNum(v) : v \in 0..MaxNum}
  \cup {TCtr("Pair", <<TNum(v), TNum(w)>>) : v, w \in 0..MaxNum}

\* readback_go takes any TermNode, and TermNode::Sup is one of its variants
\* although create_term never builds it: the graphs here are one projection
\* (label L, side S) of a Duplication node whose owned expression is a
\* Superposition node (label L2) of two alternatives
InitSup ==
  \E L, L2 \in 1..MaxLabel, S \in BOOLEAN, l, r \in SupAlts :
    /\ heap = << SupNode(l, r),
                 DupNode(IF S THEN Null ELSE 3, IF S THEN 3 ELSE Null, TSup(L2, 1)),
                 DpxNode(L, S, 2) >>
    /\ node = TDpx(3)
    /\ pc = "built"
    /\ term = Num(0)
    /\ err = NONE
    /\ labels_log = <<>>
    /\ consumed = 0
    /\ uses = <<>>
    /\ names = <<>>
    /\ dup_paths = <<>>
    /\ out = Num(0)
    /\ calls = <<>>

NextSup == Readback \/ Reduce

SpecSup == InitSup /\ [][NextSup]_vars

Spec == Init /\ [][Next]_vars

----------------------------------------------------------------------------
(* Lexical structure of Surface Terms, used to state the properties *)

\* a binder instance: the path of the Lam/Dup in the term followed by its
\* slot (0 = Lam name, 1 = Dup nam0, 2 = Dup nam1); <<>> is "no binder"
NoBinder == <<>>

Bind(env, name, id) == IF name = NONE THEN env ELSE (name :> id) @@ env
Lookup(env, name) == IF name \in DOMAIN env THEN env[name] ELSE NoBinder

RECURSIVE Occs(_, _, _)
RECURSIVE OccsArgs(_, _, _, _)

OccsArgs(args, env, path, i) ==
  IF i > Len(args) THEN <<>>
  ELSE Occs(args[i], env, Append(path, i)) \o OccsArgs(args, env, path, i + 1)

\* the Var occurrences of t in the order create_term_go reaches them, each
\* with the innermost binder of its name that lexically encloses it
Occs(t, env, path) ==
  CASE t.tag = "Var" -> <<[name |-> t.name, binder |-> Lookup(env, t.name)]>>
    [] t.tag = "Dup" ->
         Occs(t.expr, env, Append(path, 1))
         \o Occs(t.body,
                 Bind(Bind(env, t.nam0, Append(path, 1)), t.nam1, Append(path, 2)),
                 Append(path, 2))
    [] t.tag = "Lam" -> Occs(t.body, Bind(env, t.name, Append(path, 0)), Append(path, 1))
    [] t.tag = "App" ->
         Occs(t.func, env, Append(path, 1)) \o Occs(t.argm, env, Append(path, 2))
    [] t.tag \in {"Ctr", "Fun"} -> OccsArgs(t.args, env, path, 1)
    [] t.tag = "Num" -> <<>>
    [] t.tag = "Op2" ->
         Occs(t.val0, env, Append(path, 1)) \o Occs(t.val1, env, Append(path, 2))

VarOccs(t) == Occs(t, <<>>, <<>>)

Min(S) == CHOOSE m \in S : \A k \in S : m <= k

\* indexes of the occurrences that have no binder in lexical scope
FreeOccs(t) == {i \in DOMAIN VarOccs(t) : VarOccs(t)[i].binder = NoBinder}

\* indexes of the occurrences whose binder an earlier occurrence already used
ReusedOccs(t) ==
  LET occ == VarOccs(t)
  IN  {j \in DOMAIN occ : /\ occ[j].binder # NoBinder
                          /\ \E i \in 1..(j - 1) : occ[i].binder = occ[j].binder}

\* what the properties look at in one constructor of a term
TermHead(t) ==
  [tag |-> t.tag,
   name |-> IF t.tag \in {"Var", "Lam"} THEN t.name ELSE "",
   twin |-> (t.tag = "Dup" /\ t.nam0 = t.nam1 /\ t.nam0 # NONE)]

RECURSIVE Heads(_)
RECURSIVE HeadsArgs(_, _)

HeadsArgs(args, i) ==
  IF i > Len(args) THEN {} ELSE Heads(args[i]) \cup HeadsArgs(args, i + 1)

\* the heads of all subterms of t
Heads(t) ==
  {TermHead(t)} \cup
  CASE t.tag = "Dup" -> Heads(t.expr) \cup Heads(t.body)
    [] t.tag = "Lam" -> Heads(t.body)
    [] t.tag = "App" -> Heads(t.func) \cup Heads(t.argm)
    [] t.tag \in {"Ctr", "Fun"} -> HeadsArgs(t.args, 1)
    [] t.tag = "Op2" -> Heads(t.val0) \cup Heads(t.val1)
    [] OTHER -> {}

HasDup(t) == \E hd \in Heads(t) : hd.tag = "Dup"
HasTwinDup(t) == \E hd \in Heads(t) : hd.twin
HasWut(t) == \E hd \in Heads(t) : hd.name = wut

RECURSIVE Resolve(_, _, _)
RECURSIVE ResolveArgs(_, _, _, _)

ResolveArgs(args, env, path, i) ==
  IF i > Len(args) THEN <<>>
  ELSE <<Resolve(args[i], env, Append(path, i))>> \o ResolveArgs(args, env, path, i + 1)

\* t with every bound name replaced by the binder instance it refers to:
\* two terms have the same image iff they are equal up to a renaming of
\* bound names
Resolve(t, env, path) ==
  CASE t.tag = "Var" ->
         [tag |-> "Var", binder |-> Lookup(env, t.name),
          free |-> IF Lookup(env, t.name) = NoBinder THEN t.name ELSE ""]
    [] t.tag = "Dup" ->
         [tag |-> "Dup", none0 |-> (t.nam0 = NONE), none1 |-> (t.nam1 = NONE),
          expr |-> Resolve(t.expr, env, Append(path, 1)),
          body |-> Resolve(t.body,
                           Bind(Bind(env, t.nam0, Append(path, 1)), t.nam1, Append(path, 2)),
                           Append(path, 2))]
    [] t.tag = "Lam" ->
         [tag |-> "Lam", none |-> (t.name = NONE),
          body |-> Resolve(t.body, Bind(env, t.name, Append(path, 0)), Append(path, 1))]
    [] t.tag = "App" ->
         [tag |-> "App", func |-> Resolve(t.func, env, Append(path, 1)),
          argm |-> Resolve(t.argm, env, Append(path, 2))]
    [] t.tag \in {"Ctr", "Fun"} ->
         [tag |-> t.tag, name |-> t.name, args |-> ResolveArgs(t.args, env, path, 1)]
    [] t.tag = "Num" -> t
    [] t.tag = "Op2" ->
         [tag |-> "Op2", oper |-> t.oper, val0 |-> Resolve(t.val0, env, Append(path, 1)),
          val1 |-> Resolve(t.val1, env, Append(path, 2))]

AlphaEq(a, b) == Resolve(a, <<>>, <<>>) = Resolve(b, <<>>, <<>>)

RECURSIVE Reach(_, _)
RECURSIVE ReachArgs(_, _, _)

ReachArgs(h, args, i) ==
  IF i > Len(args) THEN {} ELSE Reach(h, args[i]) \cup ReachArgs(h, args, i + 1)

\* the shared nodes met from n along forward edges: lambda bodies, the
\* children of App/Ctr/Fun/Op2/Sup and the owned expression of a Duplication
\* node entered through one of its projections
Reach(h, n) ==
  CASE n.tag = "Var" -> {<<"Var", n.var>>}
    [] n.tag = "Dpx" ->
         {<<"Dpx", n.dpx>>, <<"Dup", h[n.dpx].dup>>} \cup Reach(h, h[h[n.dpx].dup].expr)
    [] n.tag = "Sup" -> Reach(h, h[n.sup].left) \cup Reach(h, h[n.sup].right)
    [] n.tag = "Lam" -> {<<"Lam", n.lam>>} \cup Reach(h, h[n.lam].body)
    [] n.tag = "App" -> Reach(h, n.f) \cup Reach(h, n.arg)
    [] n.tag \in {"Ctr", "Fun"} -> ReachArgs(h, n.args, 1)
    [] n.tag = "Op2" -> Reach(h, n.arg0) \cup Reach(h, n.arg1)
    [] OTHER -> {}

Of(R, kind) == {p[2] : p \in {q \in R : q[1] = kind}}

RECURSIVE FreeNames(_)
RECURSIVE FreeNamesArgs(_, _)
FreeNamesArgs(args, i) ==
  IF i > Len(args) THEN {} ELSE FreeNames(args[i]) \cup FreeNamesArgs(args, i + 1)

\* the names with an occurrence in t that no binder of t encloses
FreeNames(t) ==
  CASE t.tag = "Var" -> {t.name}
    [] t.tag = "Dup" -> FreeNames(t.expr) \cup (FreeNames(t.body) \ {t.nam0, t.nam1})
    [] t.tag = "Lam" -> FreeNames(t.body) \ {t.name}
    [] t.tag = "App" -> FreeNames(t.func) \cup FreeNames(t.argm)
    [] t.tag \in {"Ctr", "Fun"} -> FreeNamesArgs(t.args, 1)
    [] t.tag = "Op2" -> FreeNames(t.val0) \cup FreeNames(t.val1)
    [] OTHER -> {}

RECURSIVE BoundNames(_)
RECURSIVE BoundNamesArgs(_, _)
BoundNamesArgs(args, i) ==
  IF i > Len(args) THEN {} ELSE BoundNames(args[i]) \cup BoundNamesArgs(args, i + 1)

\* the names some Lam/Dup of t binds
BoundNames(t) ==
  CASE t.tag = "Dup" ->
         ({t.nam0, t.nam1} \ {NONE}) \cup BoundNames(t.expr) \cup BoundNames(t.body)
    [] t.tag = "Lam" -> ({t.name} \ {NONE}) \cup BoundNames(t.body)
    [] t.tag = "App" -> BoundNames(t.func) \cup BoundNames(t.argm)
    [] t.tag \in {"Ctr", "Fun"} -> BoundNamesArgs(t.args, 1)
    [] t.tag = "Op2" -> BoundNames(t.val0) \cup BoundNames(t.val1)
    [] OTHER -> {}

RECURSIVE Subst(_, _, _)
RECURSIVE SubstArgs(_, _, _, _)
SubstArgs(args, x, a, i) ==
  IF i > Len(args) THEN <<>>
  ELSE <<Subst(args[i], x, a)>> \o SubstArgs(args, x, a, i + 1)

\* t with a in place of the free occurrences of x (capture-avoiding when no
\* free name of a is bound in t)
Subst(t, x, a) ==
  CASE t.tag = "Var" -> IF t.name = x THEN a ELSE t
    [] t.tag = "Dup" ->
         Dup(t.nam0, t.nam1, Subst(t.expr, x, a),
             IF x \in {t.nam0, t.nam1} THEN t.body ELSE Subst(t.body, x, a))
    [] t.tag = "Lam" -> IF t.name = x THEN t ELSE Lam(t.name, Subst(t.body, x, a))
    [] t.tag = "App" -> App(Subst(t.func, x, a), Subst(t.argm, x, a))
    [] t.tag = "Ctr" -> Ctr(t.name, SubstArgs(t.args, x, a, 1))
    [] t.tag = "Fun" -> Fun(t.name, SubstArgs(t.args, x, a, 1))
    [] t.tag = "Op2" -> Op2(t.oper, Subst(t.val0, x, a), Subst(t.val1, x, a))
    [] OTHER -> t

\* App(Lam(x, body), arg) with no free name of arg bound in body
BetaRedex(t) ==
  /\ t.tag = "App"
  /\ t.func.tag = "Lam"
  /\ FreeNames(t.argm) \cap BoundNames(t.func.body) = {}

Built == pc \in {"built", "done", "readback_panic", "reduce_panic"}

\* the stack of label L in a DupPaths value
StackOf(dp, L) == IF L \in DOMAIN dp THEN dp[L] ELSE <<>>
LabelsOf(c) == DOMAIN c.pre \cup DOMAIN c.mid \cup DOMAIN c.post

----------------------------------------------------------------------------
(* Properties *)

\* C1: build fails with UnboundVar(name) whenever it reaches a Var(name)
\* that no Lam/Dup binder of that name lexically encloses (an earlier
\* failure being the only way not to reach it)
C1_UnboundOutOfScope ==
  (pc # "start" /\ FreeOccs(term) # {}) =>
     LET i == Min(FreeOccs(term))
     IN  /\ pc = "failed"
         /\ consumed + 1 <= i
         /\ (consumed + 1 = i => err = VarOccs(term)[i].name)

\* C2: build fails with UnboundVar(name) at the second Var occurrence that
\* refers to one and the same binder instance, in every context
C2_LinearityEnforced ==
  (pc # "start" /\ ~HasTwinDup(term) /\ ReusedOccs(term) # {}) =>
     LET j == Min(ReusedOccs(term))
     IN  /\ pc = "failed"
         /\ consumed + 1 <= j
         /\ (consumed + 1 = j => err = VarOccs(term)[j].name)

\* C3: for a Dup-free term that builds, readback(build(t)) equals t up to a
\* consistent renaming of bound names
C3_RoundTrip ==
  (pc = "done" /\ ~HasDup(term)) => AlphaEq(out, term)

\* C4: no label is handed out twice during one build, and the projections
\* of two distinct Duplication nodes carry different labels
C4_LabelsUnique ==
  Built =>
    /\ \A i, j \in DOMAIN labels_log : i # j => labels_log[i] # labels_log[j]
    /\ \A a, b \in DOMAIN heap :
         (heap[a].kind = "DpxNode" /\ heap[b].kind = "DpxNode"
            /\ heap[a].dup # heap[b].dup) => heap[a].label # heap[b].label

\* C5: in a returned graph the Lambda of every Variable occurrence (and the
\* Duplication of every Projection occurrence) is reachable from the root
\* along forward edges
C5_BackRefsReachable ==
  Built =>
    LET R == Reach(heap, node)
    IN  /\ \A v \in Of(R, "Var") : heap[v].lam \in Of(R, "Lam")
        /\ \A d \in Of(R, "Dpx") : heap[d].dup \in Of(R, "Dup")

\* C6: the Namer gives every Duplication node and every Lambda node (that
\* owns a Variable node) of the graph one id, distinct nodes distinct ids,
\* and the ids are exactly 0..n-1
C6_OneIdPerNode ==
  pc = "done" =>
    LET R == Reach(heap, node)
        keys == Of(R, "Dup") \cup
                {heap[l].var : l \in {m \in Of(R, "Lam") : heap[m].var # Null}}
    IN  /\ DOMAIN names = keys
        /\ \A a, b \in DOMAIN names : a # b => names[a] # names[b]
        /\ {names[a] : a \in DOMAIN names} = 0..(Cardinality(DOMAIN names) - 1)

\* C7: readback of a built graph never emits the sentinel name "___"
C7_NoSentinelName ==
  pc = "done" => ~HasWut(out)

\* C8: one reduce step on the graph of a beta redex App(Lam(x, body), arg)
\* completes (it does not abort) and the graph it returns reads back as
\* body with arg substituted for x
C8_BetaIsSubstitution ==
  (BetaRedex(term) /\ pc \in {"reduced", "reduce_panic"}) =>
     /\ pc = "reduced"
     /\ AlphaEq(out, Subst(term.func.body, term.func.name, term.argm))

\* C9: a Superposition with label L reached while L's stack is non-empty
\* reads back as its left alternative when the top of the stack is
\* side = false and as its right alternative when it is side = true
C9_SupFollowsPath ==
  LET dpx == heap[node.dpx]
      sup == heap[dpx.dup].expr
      alt == IF dpx.side THEN heap[sup.sup].right ELSE heap[sup.sup].left
  IN  (/\ pc \in {"done", "readback_panic"}
       /\ node.tag = "Dpx" /\ sup.tag = "Sup"
       /\ sup.label = dpx.label /\ alt.tag # "None")
      => /\ pc = "done"
         /\ out = readback_go(names, DupPaths_push(DupPaths_new, dpx.label, dpx.side),
                              heap, alt).term

\* C10: on a Superposition-free graph every readback_go call returns with
\* every label's stack as it found it, the owned expression of a projection
\* (L, S) is read with S on top of L's stack, and all stacks are empty at
\* the end
C10_PathsBalanced ==
  pc = "done" =>
    /\ \A k \in DOMAIN calls :
         LET c == calls[k]
         IN  /\ \A L \in LabelsOf(c) : StackOf(c.post, L) = StackOf(c.pre, L)
             /\ c.tag = "Dpx" =>
                  /\ StackOf(c.mid, c.label) = Append(StackOf(c.pre, c.label), c.side)
                  /\ \A L \in LabelsOf(c) \ {c.label} : StackOf(c.mid, L) = StackOf(c.pre, L)
    /\ \A L \in DOMAIN dup_paths : dup_paths[L] = <<>>

\* a projection was read while its label's stack already held an entry
C10_Witness ==
  /\ pc = "done"
  /\ \E k \in DOMAIN calls :
       calls[k].tag = "Dpx" /\ StackOf(calls[k].pre, calls[k].label) # <<>>

----------------------------------------------------------------------------
(* Which binder each consumed occurrence was given *)

RECURSIVE OccPaths(_, _)
RECURSIVE OccPathsArgs(_, _, _)
OccPathsArgs(args, path, i) ==
  IF i > Len(args) THEN <<>>
  ELSE OccPaths(args[i], Append(path, i)) \o OccPathsArgs(args, path, i + 1)

\* the paths of the Var occurrences of t, in the order of VarOccs
OccPaths(t, path) ==
  CASE t.tag = "Var" -> <<path>>
    [] t.tag = "Dup" ->
         OccPaths(t.expr, Append(path, 1)) \o OccPaths(t.body, Append(path, 2))
    [] t.tag = "Lam" -> OccPaths(t.body, Append(path, 1))
    [] t.tag = "App" ->
         OccPaths(t.func, Append(path, 1)) \o OccPaths(t.argm, Append(path, 2))
    [] t.tag \in {"Ctr", "Fun"} -> OccPathsArgs(t.args, path, 1)
    [] t.tag = "Op2" ->
         OccPaths(t.val0, Append(path, 1)) \o OccPaths(t.val1, Append(path, 2))
    [] OTHER -> <<>>

RECURSIVE BinderOrder(_, _, _)
RECURSIVE BinderOrderArgs(_, _, _, _)
BinderOrderArgs(args, path, kind, i) ==
  IF i > Len(args) THEN <<>>
  ELSE BinderOrder(args[i], Append(path, i), kind)
       \o BinderOrderArgs(args, path, kind, i + 1)

\* the paths of the Lam (kind = "Lam") or Dup (kind = "Dup") subterms of t in
\* the order create_term_go allocates their nodes: a LamNode before its
\* body is built, a DupNode after its expr and before its body
BinderOrder(t, path, kind) ==
  CASE t.tag = "Dup" ->
         BinderOrder(t.expr, Append(path, 1), kind)
         \o (IF kind = "Dup" THEN <<path>> ELSE <<>>)
         \o BinderOrder(t.body, Append(path, 2), kind)
    [] t.tag = "Lam" ->
         (IF kind = "Lam" THEN <<path>> ELSE <<>>)
         \o BinderOrder(t.body, Append(path, 1), kind)
    [] t.tag = "App" ->
         BinderOrder(t.func, Append(path, 1), kind)
         \o BinderOrder(t.argm, Append(path, 2), kind)
    [] t.tag \in {"Ctr", "Fun"} -> BinderOrderArgs(t.args, path, kind, 1)
    [] t.tag = "Op2" ->
         BinderOrder(t.val0, Append(path, 1), kind)
         \o BinderOrder(t.val1, Append(path, 2), kind)
    [] OTHER -> <<>>

RECURSIVE SubtermAt(_, _)
\* the subterm of t at path
SubtermAt(t, path) ==
  IF path = <<>> THEN t
  ELSE LET k == path[1]
           rest == SubSeq(path, 2, Len(path))
       IN  CASE t.tag = "Dup" -> SubtermAt(IF k = 1 THEN t.expr ELSE t.body, rest)
             [] t.tag = "Lam" -> SubtermAt(t.body, rest)
             [] t.tag = "App" -> SubtermAt(IF k = 1 THEN t.func ELSE t.argm, rest)
             [] t.tag \in {"Ctr", "Fun"} -> SubtermAt(t.args[k], rest)
             [] t.tag = "Op2" -> SubtermAt(IF k = 1 THEN t.val0 ELSE t.val1, rest)

IsPrefix(p, q) == Len(p) <= Len(q) /\ SubSeq(q, 1, Len(p)) = p
Front(p) == SubSeq(p, 1, Len(p) - 1)

\* the addresses of the cells of one kind, in allocation order
AddrsOfKind(kind) ==
  LET OfKind(a) == heap[a].kind = kind
  IN  SelectSeq([a \in 1..Len(heap) |-> a], OfKind)

\* the path of the Lam / Dup subterm of `term` whose node is at addr
PathOfNode(addr, kind) ==
  LET as == AddrsOfKind(IF kind = "Lam" THEN "LamNode" ELSE "DupNode")
      k == CHOOSE j \in DOMAIN as : as[j] = addr
  IN  BinderOrder(term, <<>>, kind)[k]

\* the binder instance (as in Occs) whose pending binding the occurrence
\* node u is
NodeBinder(u) ==
  IF u.tag = "Var" THEN Append(PathOfNode(heap[u.var].lam, "Lam"), 0)
  ELSE Append(PathOfNode(heap[u.dpx].dup, "Dup"), IF heap[u.dpx].side THEN 2 ELSE 1)

\* the paths of the Dup subterms of `term` whose expr holds the position op
DupsWithExprAround(op) ==
  {P \in {SubSeq(op, 1, k) : k \in 0..(Len(op) - 1)} :
     SubtermAt(term, P).tag = "Dup" /\ op[Len(P) + 1] = 1}

\* a Var that was given a projection of a Dup lies in the body of that Dup
C11_OnlyBodyProjects ==
  \A i \in DOMAIN uses :
    LET b == NodeBinder(uses[i])
    IN  b[Len(b)] \in {1, 2} =>
          IsPrefix(Append(Front(b), 2), OccPaths(term, <<>>)[i])

\* a projection of side false is given to a Var named nam0, one of side true
\* to a Var named nam1, and the first Var given a projection of a Dup with
\* nam0 = nam1 gets the side-true one
C11_SideOfName ==
  \A i \in DOMAIN uses :
    LET b == NodeBinder(uses[i])
        d == SubtermAt(term, Front(b))
        nm == VarOccs(term)[i].name
    IN  b[Len(b)] \in {1, 2} =>
          /\ nm = IF b[Len(b)] = 1 THEN d.nam0 ELSE d.nam1
          /\ (d.nam0 = d.nam1 /\ \A j \in 1..(i - 1) :
                                   Front(NodeBinder(uses[j])) # Front(b))
               => b[Len(b)] = 2

\* a Var(nam0) or Var(nam1) inside the expr of a Dup makes build fail when
\* no binder of that name encloses it, and otherwise is given the pending
\* binding of the enclosing binder
C11_ExprSeesOuterScope ==
  \A i \in DOMAIN VarOccs(term) :
    LET occ == VarOccs(term)[i]
        op == OccPaths(term, <<>>)[i]
    IN  (\E P \in DupsWithExprAround(op) :
           occ.name \in {SubtermAt(term, P).nam0, SubtermAt(term, P).nam1})
        => /\ occ.binder = NoBinder => (pc = "failed" /\ consumed + 1 <= i)
           /\ (occ.binder # NoBinder /\ i \notin ReusedOccs(term) /\ i <= Len(uses))
                => NodeBinder(uses[i]) = occ.binder

\* C11: the expr of a Dup is built before the Dup's binders are pushed: a
\* Var(nam0)/Var(nam1) inside expr is never given a projection of that Dup,
\* it is given the pending binding of an enclosing binder or makes build
\* fail with UnboundVar; only Vars in the body become the Dup's projections,
\* side false for nam0 and side true for nam1 (side true first if nam0 = nam1)
C11_DupIsStrict ==
  pc # "start" =>
    /\ C11_OnlyBodyProjects
    /\ C11_SideOfName
    /\ C11_ExprSeesOuterScope

====
